---- MODULE Spec2Model ----
(***************************************************************************)
(* Model of the ERA5 tools: the fetcher (scripts/era5_download_unique.py)  *)
(* and the renderer (scripts/era5_visualize.py).                           *)
(*                                                                         *)
(* A Python str is a sequence of one-character strings, so that            *)
(* formatting, split, slicing and isdigit are computed, not assumed.       *)
(* Optional values: None is <<>>, a present value x is <<x>>.              *)
(* Coordinates are integers in units of half a grid step, so a requested   *)
(* bound can fall exactly between two grid points.  Requested pressure     *)
(* levels are in tenths (5007 is 500.7) so that int() truncates.           *)
(***************************************************************************)
EXTENDS Integers, Sequences, FiniteSets, TLC

VARIABLES
    prog,          \* which script the process runs: "fetcher" or "renderer"
    pc,            \* position of the process in the script
    exit_code,     \* process exit status once pc = "exited", else -1
    ending,        \* how the process ended: "", "sys.exit", "return", "uncaught"
    error,         \* the step whose statement raised in the last transition, or "none"
    cli,           \* fetcher command line (argparse namespace)
    lat_range,     \* download_era5_data argument
    lon_range,     \* download_era5_data argument
    timestamp,     \* local of download_era5_data (str)
    ds,            \* the opened store
    ds_day,        \* the current view
    var_idx,       \* save loop: number of variables of the view already handled
    saved_count,   \* local of download_era5_data
    disk,          \* files present in the output directory
    written,       \* every path handed to to_netcdf that was written, in order
    save_errors,   \* <<variable, position of the level>> pairs whose write raised
    argv,          \* renderer command line after the script name
    origin,        \* what the renderer's file was generated from
    level,         \* local of plot_era5_file (str)
    date_str       \* local of plot_era5_file (str)

vars == <<prog, pc, exit_code, ending, error, cli, lat_range, lon_range, timestamp,
          ds, ds_day, var_idx, saved_count, disk, written, save_errors,
          argv, origin, level, date_str>>

----------------------------------------------------------------------------
(* Optional values *)

None == <<>>

Some(x) == <<x>>

IsNone(o) == o = <<>>

Val(o) == o[1]

----------------------------------------------------------------------------
(* Python str operations on sequences of characters *)

DigitChars == <<"0", "1", "2", "3", "4", "5", "6", "7", "8", "9">>

IsDigitChar(c) == \E i \in 1..Len(DigitChars) : DigitChars[i] = c

\* str.isdigit(): non-empty and every character a digit
IsDigit(s) == Len(s) > 0 /\ \A i \in 1..Len(s) : IsDigitChar(s[i])

RECURSIVE NatStr(_)
NatStr(n) ==
    IF n < 10 THEN <<DigitChars[n + 1]>>
    ELSE NatStr(n \div 10) \o <<DigitChars[(n % 10) + 1]>>

\* f"{n}" for an int
IntStr(n) == IF n < 0 THEN <<"-">> \o NatStr(-n) ELSE NatStr(n)

RECURSIVE Zeros(_)
Zeros(k) == IF k <= 0 THEN <<>> ELSE <<"0">> \o Zeros(k - 1)

ZeroFill(s, w) == Zeros(w - Len(s)) \o s

\* f"{n:0wd}": zero padded to width w, the sign counted in the width
Fmt0d(n, w) ==
    IF n < 0 THEN <<"-">> \o ZeroFill(NatStr(-n), w - 1)
    ELSE ZeroFill(NatStr(n), w)

\* s[a:b] with Python's negative indices and clamping
PySlice(s, a, b) ==
    LET n  == Len(s)
        lo == IF a < 0 THEN (IF n + a < 0 THEN 0 ELSE n + a) ELSE (IF a > n THEN n ELSE a)
        hi == IF b < 0 THEN (IF n + b < 0 THEN 0 ELSE n + b) ELSE (IF b > n THEN n ELSE b)
    IN  SubSeq(s, lo + 1, hi)

\* sub in s
Contains(sub, s) ==
    \E i \in 1..(Len(s) - Len(sub) + 1) : SubSeq(s, i, i + Len(sub) - 1) = sub

\* s.split(sep) for a one-character separator
RECURSIVE SplitFrom(_, _, _, _)
SplitFrom(s, sep, i, cur) ==
    IF i > Len(s) THEN <<cur>>
    ELSE IF s[i] = sep THEN <<cur>> \o SplitFrom(s, sep, i + 1, <<>>)
    ELSE SplitFrom(s, sep, i + 1, Append(cur, s[i]))

Split(s, sep) == SplitFrom(s, sep, 1, <<>>)

\* Path(p).name: what follows the last "/"
RECURSIVE PathName(_)
PathName(p) ==
    IF \A i \in 1..Len(p) : p[i] # "/" THEN p
    ELSE PathName(Tail(p))

\* os.path.join(dir, name)
PathJoin(dir, name) ==
    IF Len(dir) > 0 /\ dir[Len(dir)] = "/" THEN dir \o name ELSE dir \o <<"/">> \o name

----------------------------------------------------------------------------
(* Names, as Python str *)

Chars(name) ==
    CASE name = "2m_temperature" ->
            <<"2", "m", "_", "t", "e", "m", "p", "e", "r", "a", "t", "u", "r", "e">>
      [] name = "temperature" ->
            <<"t", "e", "m", "p", "e", "r", "a", "t", "u", "r", "e">>
      [] name = "total_precipitation" ->
            <<"t", "o", "t", "a", "l", "_", "p", "r", "e", "c", "i", "p", "i", "t",
              "a", "t", "i", "o", "n">>
      [] name = "u_component_of_wind" ->
            <<"u", "_", "c", "o", "m", "p", "o", "n", "e", "n", "t", "_", "o", "f",
              "_", "w", "i", "n", "d">>

\* default of --output_dir
DefaultOutputDir == <<".", "/", "d", "a", "t", "a">>

PRESSURE_LEVEL_VARIABLES ==
    {"geopotential", "specific_humidity", "temperature", "u_component_of_wind",
     "v_component_of_wind", "fraction_of_cloud_cover", "ozone_mass_mixing_ratio",
     "specific_cloud_ice_water_content", "specific_cloud_liquid_water_content",
     "potential_vorticity", "vertical_velocity"}

SURFACE_VARIABLES ==
    {"2m_temperature", "2m_dewpoint_temperature", "10m_u_component_of_wind",
     "10m_v_component_of_wind", "mean_sea_level_pressure", "surface_pressure",
     "total_precipitation", "total_cloud_cover", "sea_surface_temperature"}

----------------------------------------------------------------------------
(* The remote store and views of it *)

\* number of grid steps on each side of the middle coordinate of an axis
GridSteps == 1

GridSize == 2 * GridSteps + 1

\* ERA5 latitudes run north to south
LatitudeAxis == [i \in 1..GridSize |-> 2 * (GridSteps + 1 - i)]

\* ERA5 longitudes run west to east from 0
LongitudeAxis == [i \in 1..GridSize |-> 2 * (i - 1)]

Dimensions == {"time", "level", "latitude", "longitude"}

\* what xr.open_zarr can return: the data variables in store order and the
\* coordinate values
Stores ==
    { [data_vars |-> <<"2m_temperature", "temperature", "total_precipitation",
                       "u_component_of_wind">>,
       level     |-> <<1, 500, 850>>,
       latitude  |-> LatitudeAxis,
       longitude |-> LongitudeAxis],
      [data_vars |-> <<"u_component_of_wind", "temperature", "2m_temperature",
                       "total_precipitation">>,
       level     |-> <<1, 2, 500>>,
       latitude  |-> LatitudeAxis,
       longitude |-> LongitudeAxis] }

\* the value of ds_day before it is bound
NoView ==
    [data_vars |-> <<>>, dims |-> {}, level |-> <<>>, latitude |-> <<>>,
     longitude |-> <<>>]

NoStore == [data_vars |-> <<>>, level |-> <<>>, latitude |-> <<>>, longitude |-> <<>>]

Range(seq) == {seq[i] : i \in 1..Len(seq)}

\* 'level' in var_data.dims, for a data variable
IsMultilevel(var_name) == var_name \in PRESSURE_LEVEL_VARIABLES

\* the dimensions of a variable of the store: a data variable, or the
\* coordinate variable of a dimension
DimsOf(name) ==
    IF name \in Dimensions THEN {name}
    ELSE IF IsMultilevel(name) THEN Dimensions
    ELSE Dimensions \ {"level"}

\* ds.sel(time=date_str): every variable, the hours of one day
SelectDay(store) ==
    [data_vars |-> store.data_vars, dims |-> Dimensions, level |-> store.level,
     latitude |-> store.latitude, longitude |-> store.longitude]

\* ds_day.variables: data variables and coordinate variables
VariablesOf(view) == Range(view.data_vars) \cup view.dims

\* a faulty fallback that keeps two variables, to test the sensitivity of
\* FallbackIsFirstThree
FirstTwoVars(view) ==
    SubSeq(view.data_vars, 1, IF Len(view.data_vars) < 2 THEN Len(view.data_vars) ELSE 2)

\* list(ds_day.data_vars)[:3]
FallbackVars(view) ==
    SubSeq(view.data_vars, 1, IF Len(view.data_vars) < 3 THEN Len(view.data_vars) ELSE 3)

\* [var for var in variables if var in ds_day.variables]
AvailableVars(view, variables) ==
    SelectSeq(variables, LAMBDA v : v \in VariablesOf(view))

RECURSIVE Dedup(_)
Dedup(seq) ==
    IF seq = <<>> THEN <<>>
    ELSE LET init == Dedup(SubSeq(seq, 1, Len(seq) - 1))
             last == seq[Len(seq)]
         IN  IF last \in Range(init) THEN init ELSE Append(init, last)

\* ds_day[names]: the named data variables and the coordinates they use
SelectNames(view, names) ==
    LET needed == UNION {DimsOf(names[i]) : i \in 1..Len(names)}
    IN  [data_vars |-> Dedup(SelectSeq(names, LAMBDA v : v \in Range(view.data_vars))),
         dims      |-> needed,
         level     |-> IF "level" \in needed THEN view.level ELSE <<>>,
         latitude  |-> IF "latitude" \in needed THEN view.latitude ELSE <<>>,
         longitude |-> IF "longitude" \in needed THEN view.longitude ELSE <<>>]

\* Step 3 with a variable list
FilterVariables(view, variables) ==
    LET found == AvailableVars(view, variables)
    IN  SelectNames(view, IF found = <<>> THEN FallbackVars(view) ELSE found)

\* Step 3 without one
DefaultVariables(view) == SelectNames(view, FallbackVars(view))

\* int(lvl), lvl in tenths: truncation toward zero
PyInt(tenths) == IF tenths < 0 THEN -((-tenths) \div 10) ELSE tenths \div 10

\* ds_day.sel(level=levels): the listed levels in the listed order
SelectLevels(view, levels) == [view EXCEPT !.level = levels]

\* a faulty variant that falls back to the first levels when none matches,
\* to test the sensitivity of LevelFilterKeepsRequestedAvailable
FilterLevelsOrFirst(view, pressure_levels) ==
    LET requested_levels == [i \in 1..Len(pressure_levels) |-> PyInt(pressure_levels[i])]
        levels_to_use    == SelectSeq(requested_levels, LAMBDA l : l \in Range(view.level))
    IN  IF levels_to_use # <<>> THEN SelectLevels(view, levels_to_use)
        ELSE SelectLevels(view, SubSeq(view.level, 1,
                                       IF Len(view.level) < 2 THEN Len(view.level) ELSE 2))

\* Step 4 with a level list
FilterLevels(view, pressure_levels) ==
    LET requested_levels == [i \in 1..Len(pressure_levels) |-> PyInt(pressure_levels[i])]
        levels_to_use    == SelectSeq(requested_levels, LAMBDA l : l \in Range(view.level))
    IN  IF levels_to_use # <<>> THEN SelectLevels(view, levels_to_use) ELSE view

\* Step 4 without one
DefaultLevels(view) ==
    LET available_levels == view.level
        levels_to_use ==
            IF 500 \in Range(available_levels) /\ 850 \in Range(available_levels)
            THEN <<500, 850>>
            ELSE SubSeq(available_levels, 1,
                        IF Len(available_levels) < 2 THEN Len(available_levels) ELSE 2)
    IN  SelectLevels(view, levels_to_use)

----------------------------------------------------------------------------
(* Spatial subsetting *)

Abs(x) == IF x < 0 THEN -x ELSE x

\* index.sel(axis=x, method="nearest"): the closest coordinate, the larger
\* one when two are equally close
Nearest(coords, x) ==
    CHOOSE c \in Range(coords) :
        \A d \in Range(coords) :
            \/ Abs(c - x) < Abs(d - x)
            \/ Abs(c - x) = Abs(d - x) /\ c >= d

IndexOf(coords, c) == CHOOSE i \in 1..Len(coords) : coords[i] = c

\* index.sel(axis=slice(start, stop)) for labels of a monotonic index: from
\* the position of start to the position of stop, both included
SliceAxis(coords, start, stop) ==
    SubSeq(coords, IndexOf(coords, start), IndexOf(coords, stop))

\* a faulty variant that keeps the bounds as given, to test the sensitivity
\* of ReversedRangeSelectsSame
KeepRange(range) == range

\* if min > max: min, max = max, min
OrderRange(range) ==
    IF range[1] > range[2] THEN <<range[2], range[1]>> ELSE range

\* whether the try block of step 5 raises: ds_day.latitude is missing, or
\* the nearest lookup has nothing to choose from
LatitudeRaises(view, range) == "latitude" \notin view.dims \/ view.latitude = <<>>

LongitudeRaises(view, range) == "longitude" \notin view.dims \/ view.longitude = <<>>

\* a faulty variant that slices south to north, to test the sensitivity of
\* OutsideBoundsClampToBoundary
SubsetLatitudeAscending(view, range) ==
    LET r == OrderRange(range)
        closest_min_lat == Nearest(view.latitude, r[1])
        closest_max_lat == Nearest(view.latitude, r[2])
    IN  [view EXCEPT !.latitude = SliceAxis(view.latitude, closest_min_lat, closest_max_lat)]

\* step 5: latitude slices run north to south
SubsetLatitude(view, range) ==
    LET r == OrderRange(range)
        closest_min_lat == Nearest(view.latitude, r[1])
        closest_max_lat == Nearest(view.latitude, r[2])
    IN  [view EXCEPT !.latitude = SliceAxis(view.latitude, closest_max_lat, closest_min_lat)]

\* step 6: longitude slices run west to east
SubsetLongitude(view, range) ==
    LET r == OrderRange(range)
        closest_min_lon == Nearest(view.longitude, r[1])
        closest_max_lon == Nearest(view.longitude, r[2])
    IN  [view EXCEPT !.longitude = SliceAxis(view.longitude, closest_min_lon, closest_max_lon)]

----------------------------------------------------------------------------
(* File names *)

\* datetime.now().strftime("%Y%m%d%H%M%S")
Strftime(now) ==
    IntStr(now.Y) \o Fmt0d(now.m, 2) \o Fmt0d(now.d, 2) \o Fmt0d(now.H, 2)
        \o Fmt0d(now.M, 2) \o Fmt0d(now.S, 2)

\* f"{year}-{month:02d}-{day:02d}"
DateStr(year, month, day) ==
    IntStr(year) \o <<"-">> \o Fmt0d(month, 2) \o <<"-">> \o Fmt0d(day, 2)

\* f"{year}{month:02d}{day:02d}"
DateField(year, month, day) == IntStr(year) \o Fmt0d(month, 2) \o Fmt0d(day, 2)

\* f"{var_name}_{int(level)}_{year}{month:02d}{day:02d}_{timestamp}.nc"; the
\* level is a value of the integer level coordinate
LevelFileName(var_name, lvl, year, month, day, ts) ==
    Chars(var_name) \o <<"_">> \o IntStr(lvl) \o <<"_">> \o DateField(year, month, day)
        \o <<"_">> \o ts \o <<".", "n", "c">>

\* f"{var_name}_sfc_{year}{month:02d}{day:02d}_{timestamp}.nc"
SurfaceFileName(var_name, year, month, day, ts) ==
    Chars(var_name) \o <<"_", "s", "f", "c", "_">> \o DateField(year, month, day)
        \o <<"_">> \o ts \o <<".", "n", "c">>

----------------------------------------------------------------------------
(* The renderer's reading of a file name *)

Surface == <<"s", "u", "r", "f", "a", "c", "e">>

\* level = "surface" unless the second "_"-separated part is a number
InferLevel(filename) ==
    IF ~Contains(<<"_", "s", "f", "c", "_">>, filename) /\ Contains(<<"_">>, filename)
    THEN LET level_parts == Split(filename, "_")
         IN  IF Len(level_parts) > 1 /\ IsDigit(level_parts[2])
             THEN level_parts[2] \o <<" ", "h", "P", "a">>
             ELSE Surface
    ELSE Surface

\* date_str from filename[-11:-3]
InferDate(filename) ==
    LET d == PySlice(filename, -11, -3)
    IN  IF IsDigit(d)
        THEN PySlice(d, 0, 4) \o <<"-">> \o PySlice(d, 4, 6) \o <<"-">> \o PySlice(d, 6, 8)
        ELSE <<>>

----------------------------------------------------------------------------
(* Inputs *)

Dates ==
    { [year |-> 2023, month |-> 1, day |-> 5],
      [year |-> 2023, month |-> 12, day |-> 25] }

\* --year 20 --month 1 --day 5: integers, so argparse accepts them
ShortYearDate == [year |-> 20, month |-> 1, day |-> 5]

\* values of datetime.now()
Clocks ==
    { [Y |-> 2025, m |-> 6, d |-> 14, H |-> 9, M |-> 30, S |-> 7],
      [Y |-> 2025, m |-> 6, d |-> 20, H |-> 23, M |-> 1, S |-> 5] }

VariableLists ==
    { None,
      Some(<<"temperature">>),
      Some(<<"2m_temperature">>),
      Some(<<"no_such_variable">>),
      Some(<<"no_such_variable", "u_component_of_wind", "2m_temperature">>),
      Some(<<"level">>) }

\* in tenths
LevelLists ==
    { None,
      Some(<<5000>>),
      Some(<<5000, 5000>>),
      Some(<<8500, 5007>>),
      Some(<<9990>>) }

\* below the axis, between two grid points, above the axis
LatBounds == {-(2 * GridSteps + 1), 1, 2 * GridSteps + 1}

LonBounds == {-1, 3, 4 * GridSteps + 1}

Optional(S) == {None} \cup {Some(x) : x \in S}

\* --lat_min --lat_max --lon_min --lon_max: every choice for one axis, with
\* the other axis absent or fixed
SpatialArgs ==
    { q \in Optional(LatBounds) \X Optional(LatBounds)
              \X Optional(LonBounds) \X Optional(LonBounds) :
        \/ <<q[3], q[4]>> \in {<<None, None>>, <<Some(3), Some(-1)>>}
        \/ <<q[1], q[2]>> \in {<<None, None>>, <<Some(-(2 * GridSteps + 1)), Some(1)>>} }

CommandLines ==
    { [year |-> d.year, month |-> d.month, day |-> d.day, variables |-> v, levels |-> l,
       lat_min |-> None, lat_max |-> None, lon_min |-> None, lon_max |-> None,
       output_dir |-> DefaultOutputDir] :
         d \in Dates, v \in VariableLists, l \in LevelLists }
    \cup
    { [year |-> ShortYearDate.year, month |-> ShortYearDate.month,
       day |-> ShortYearDate.day, variables |-> Some(<<"temperature">>),
       levels |-> Some(<<5000>>),
       lat_min |-> None, lat_max |-> None, lon_min |-> None, lon_max |-> None,
       output_dir |-> DefaultOutputDir] }
    \cup
    { [year |-> 2023, month |-> 1, day |-> 5, variables |-> v, levels |-> Some(<<5000>>),
       lat_min |-> a, lat_max |-> b, lon_min |-> c, lon_max |-> d,
       output_dir |-> DefaultOutputDir] :
         v \in {Some(<<"temperature">>), Some(<<"level">>)},
         <<a, b, c, d>> \in SpatialArgs }

NoCommandLine ==
    [year |-> 0, month |-> 0, day |-> 0, variables |-> None, levels |-> None,
     lat_min |-> None, lat_max |-> None, lon_min |-> None, lon_max |-> None,
     output_dir |-> <<>>]

StoreNames == {"2m_temperature", "temperature", "total_precipitation", "u_component_of_wind"}

StoreLevels == {1, 2, 500, 850}

\* what a file of the fetcher is generated from: a variable, a level of a
\* multilevel variable, a date and a clock reading
Origins ==
    { [var_name |-> v, level |-> Some(l), year |-> d.year, month |-> d.month,
       day |-> d.day, now |-> c] :
         v \in {n \in StoreNames : IsMultilevel(n)}, l \in StoreLevels, d \in Dates,
         c \in Clocks }
    \cup
    { [var_name |-> v, level |-> None, year |-> d.year, month |-> d.month,
       day |-> d.day, now |-> c] :
         v \in {n \in StoreNames : ~IsMultilevel(n)}, d \in Dates, c \in Clocks }

\* the path the fetcher writes for an origin
PathOf(o) ==
    PathJoin(DefaultOutputDir,
             IF IsNone(o.level)
             THEN SurfaceFileName(o.var_name, o.year, o.month, o.day, Strftime(o.now))
             ELSE LevelFileName(o.var_name, Val(o.level), o.year, o.month, o.day,
                                Strftime(o.now)))

----------------------------------------------------------------------------
(* Process start and end *)

\* a faulty variant in which an uncaught exception leaves status 0, to test
\* the sensitivity of ExitStatusByEnding
ExitZeroUnlessAsked(how, arg) == IF how = "sys.exit" THEN arg ELSE 0

\* the exit status of the interpreter: the argument of sys.exit, 1 after an
\* uncaught exception, 0 when the script runs to its end
ExitStatus(how, arg) ==
    CASE how = "sys.exit" -> arg
      [] how = "uncaught" -> 1
      [] how = "end"      -> 0

Exit(how, arg, label) ==
    /\ pc' = "exited"
    /\ exit_code' = ExitStatus(how, arg)
    /\ ending' = label

Running == exit_code' = exit_code /\ ending' = ending

Init ==
    /\ prog \in {"fetcher", "renderer"}
    /\ pc = "import"
    /\ exit_code = -1
    /\ ending = ""
    /\ error = "none"
    /\ IF prog = "fetcher"
       THEN cli \in CommandLines /\ argv = <<>> /\ origin = None
       ELSE /\ cli = NoCommandLine
            /\ \/ argv = <<>> /\ origin = None
               \/ \E o \in Origins : argv = <<PathOf(o)>> /\ origin = Some(o)
    /\ lat_range = None
    /\ lon_range = None
    /\ timestamp = <<>>
    /\ ds = NoStore
    /\ ds_day = NoView
    /\ var_idx = 0
    /\ saved_count = 0
    /\ disk = {}
    /\ written = <<>>
    /\ save_errors = {}
    /\ level = <<>>
    /\ date_str = <<>>

fetcherLocals == <<lat_range, lon_range, timestamp, ds, ds_day, var_idx, saved_count,
                   disk, written, save_errors>>

rendererLocals == <<level, date_str>>

inputs == <<prog, cli, argv, origin>>

----------------------------------------------------------------------------
(* The fetcher *)

\* the import guard at the top of the script
FetchImport ==
    /\ prog = "fetcher" /\ pc = "import"
    /\ \/ /\ pc' = "main" /\ error' = "none" /\ Running
       \/ /\ error' = "import" /\ Exit("sys.exit", 1, "import_error")
    /\ UNCHANGED <<inputs, fetcherLocals, rendererLocals>>

\* a range is passed only when both of its ends are given
RangeOf(lo, hi) ==
    IF ~IsNone(lo) /\ ~IsNone(hi) THEN Some(<<Val(lo), Val(hi)>>) ELSE None

\* main(): parse the command line and call download_era5_data
FetchMain ==
    /\ prog = "fetcher" /\ pc = "main"
    /\ \/ /\ pc' = "start" /\ error' = "none" /\ Running
          /\ lat_range' = RangeOf(cli.lat_min, cli.lat_max)
          /\ lon_range' = RangeOf(cli.lon_min, cli.lon_max)
       \/ /\ error' = "argparse" /\ Exit("sys.exit", 2, "argparse_error")
          /\ UNCHANGED <<lat_range, lon_range>>
    /\ UNCHANGED <<inputs, timestamp, ds, ds_day, var_idx, saved_count, disk, written,
                   save_errors, rendererLocals>>

\* os.makedirs and the timestamp
Start ==
    /\ prog = "fetcher" /\ pc = "start"
    /\ \/ \E now \in Clocks :
            /\ timestamp' = Strftime(now)
            /\ pc' = "open" /\ error' = "none" /\ Running
       \/ /\ error' = "makedirs" /\ Exit("uncaught", 0, "uncaught_exception")
          /\ UNCHANGED timestamp
    /\ UNCHANGED <<inputs, lat_range, lon_range, ds, ds_day, var_idx, saved_count, disk,
                   written, save_errors, rendererLocals>>

\* where the except block of a step leaves the run: the handlers of steps 1
\* and 2 return, the others fall through to the next step
AlwaysReturn(step) == "exited"

OnError(step) ==
    CASE step = "open"      -> "exited"
      [] step = "date"      -> "exited"
      [] step = "variables" -> "levels"
      [] step = "levels"    -> "latitude"
      [] step = "latitude"  -> "longitude"
      [] step = "longitude" -> "save"

\* the except block of a step: the view stays as it was
Caught(step) ==
    /\ error' = step
    /\ IF OnError(step) = "exited"
       THEN Exit("end", 0, "returned")
       ELSE pc' = OnError(step) /\ Running
    /\ UNCHANGED ds_day

\* step 1
Open ==
    /\ prog = "fetcher" /\ pc = "open"
    /\ \/ \E store \in Stores :
            /\ ds' = store
            /\ pc' = "date" /\ error' = "none" /\ Running
            /\ UNCHANGED ds_day
       \/ Caught("open") /\ UNCHANGED ds
    /\ UNCHANGED <<inputs, lat_range, lon_range, timestamp, var_idx, saved_count, disk,
                   written, save_errors, rendererLocals>>

\* step 2
SelectDate ==
    /\ prog = "fetcher" /\ pc = "date"
    /\ \/ /\ ds_day' = SelectDay(ds)
          /\ pc' = "variables" /\ error' = "none" /\ Running
       \/ Caught("date")
    /\ UNCHANGED <<inputs, lat_range, lon_range, timestamp, ds, var_idx, saved_count,
                   disk, written, save_errors, rendererLocals>>

\* step 3
Variables ==
    /\ prog = "fetcher" /\ pc = "variables"
    /\ IF ~IsNone(cli.variables)
       THEN \/ /\ ds_day' = FilterVariables(ds_day, Val(cli.variables))
               /\ pc' = "levels" /\ error' = "none" /\ Running
            \/ Caught("variables")
       ELSE \/ /\ ds_day' = DefaultVariables(ds_day)
               /\ pc' = "levels" /\ error' = "none" /\ Running
            \/ /\ error' = "default_variables"
               /\ Exit("uncaught", 0, "uncaught_exception")
               /\ UNCHANGED ds_day
    /\ UNCHANGED <<inputs, lat_range, lon_range, timestamp, ds, var_idx, saved_count,
                   disk, written, save_errors, rendererLocals>>

\* step 4
Levels ==
    /\ prog = "fetcher" /\ pc = "levels"
    /\ IF "level" \in ds_day.dims /\ ~IsNone(cli.levels)
       THEN \/ /\ ds_day' = FilterLevels(ds_day, Val(cli.levels))
               /\ pc' = "latitude" /\ error' = "none" /\ Running
            \/ Caught("levels")
       ELSE IF "level" \in ds_day.dims
       THEN \/ /\ ds_day' = DefaultLevels(ds_day)
               /\ pc' = "latitude" /\ error' = "none" /\ Running
            \/ /\ error' = "default_levels"
               /\ Exit("uncaught", 0, "uncaught_exception")
               /\ UNCHANGED ds_day
       ELSE /\ pc' = "latitude" /\ error' = "none" /\ Running
            /\ UNCHANGED ds_day
    /\ UNCHANGED <<inputs, lat_range, lon_range, timestamp, ds, var_idx, saved_count,
                   disk, written, save_errors, rendererLocals>>

\* step 5
Latitude ==
    /\ prog = "fetcher" /\ pc = "latitude"
    /\ IF IsNone(lat_range)
       THEN /\ pc' = "longitude" /\ error' = "none" /\ Running
            /\ UNCHANGED ds_day
       ELSE IF LatitudeRaises(ds_day, Val(lat_range))
       THEN Caught("latitude")
       ELSE /\ ds_day' = SubsetLatitude(ds_day, Val(lat_range))
            /\ pc' = "longitude" /\ error' = "none" /\ Running
    /\ UNCHANGED <<inputs, lat_range, lon_range, timestamp, ds, var_idx, saved_count,
                   disk, written, save_errors, rendererLocals>>

\* step 6
Longitude ==
    /\ prog = "fetcher" /\ pc = "longitude"
    /\ IF IsNone(lon_range)
       THEN /\ pc' = "save" /\ error' = "none" /\ Running
            /\ UNCHANGED ds_day
       ELSE IF LongitudeRaises(ds_day, Val(lon_range))
       THEN Caught("longitude")
       ELSE /\ ds_day' = SubsetLongitude(ds_day, Val(lon_range))
            /\ pc' = "save" /\ error' = "none" /\ Running
    /\ UNCHANGED <<inputs, lat_range, lon_range, timestamp, ds, var_idx, saved_count,
                   disk, written, save_errors, rendererLocals>>

\* at most this many writes fail in one run
MaxSaveFailures == 1

\* the file names of one variable of the view, in the order of the level loop
FileNames(view, var_name, year, month, day, ts) ==
    IF IsMultilevel(var_name)
    THEN [i \in 1..Len(view.level) |->
            LevelFileName(var_name, view.level[i], year, month, day, ts)]
    ELSE <<SurfaceFileName(var_name, year, month, day, ts)>>

\* a faulty variant that goes on with the next level after a failed write,
\* to test the sensitivity of FailedWriteEndsItsVariable
SkipFailedOnly(n, k) == (1..n) \ {k}

\* the positions of the level loop whose file is written when the write at
\* position k raises (k = 0: none raises): the except block is outside the loop
WrittenPositions(n, k) == IF k = 0 THEN 1..n ELSE 1..(k - 1)

RECURSIVE SeqOfSet(_)
SeqOfSet(S) ==
    IF S = {} THEN <<>>
    ELSE LET x == CHOOSE y \in S : \A z \in S : y <= z
         IN  <<x>> \o SeqOfSet(S \ {x})

\* step 7, one iteration of the loop over the variables of the view
SaveVariable ==
    /\ prog = "fetcher" /\ pc = "save" /\ var_idx < Len(ds_day.data_vars)
    /\ LET var_name == ds_day.data_vars[var_idx + 1]
           names    == FileNames(ds_day, var_name, cli.year, cli.month, cli.day, timestamp)
       IN  \E k \in 0..(IF Cardinality(save_errors) < MaxSaveFailures
                         THEN Len(names) ELSE 0) :
             LET done  == SeqOfSet(WrittenPositions(Len(names), k))
                 files == [i \in 1..Len(done) |->
                             [path     |-> PathJoin(cli.output_dir, names[done[i]]),
                              var_name |-> var_name,
                              pos      |-> done[i]]]
             IN  /\ written' = written \o files
                 /\ disk' = disk \cup {files[i].path : i \in 1..Len(files)}
                 /\ saved_count' = saved_count + Len(files)
                 /\ save_errors' = IF k = 0 THEN save_errors
                                   ELSE save_errors \cup {<<var_name, k>>}
                 /\ error' = IF k = 0 THEN "none" ELSE "save"
    /\ var_idx' = var_idx + 1
    /\ pc' = "save" /\ Running
    /\ UNCHANGED <<inputs, lat_range, lon_range, timestamp, ds, ds_day, rendererLocals>>

\* the summary; download_era5_data and main return
Finish ==
    /\ prog = "fetcher" /\ pc = "save" /\ var_idx = Len(ds_day.data_vars)
    /\ error' = "none" /\ Exit("end", 0, "returned")
    /\ UNCHANGED <<inputs, fetcherLocals, rendererLocals>>

----------------------------------------------------------------------------
(* The renderer *)

\* the import guard at the top of the script
RenderImport ==
    /\ prog = "renderer" /\ pc = "import"
    /\ \/ /\ pc' = "main" /\ error' = "none" /\ Running
       \/ /\ error' = "import" /\ Exit("sys.exit", 1, "import_error")
    /\ UNCHANGED <<inputs, fetcherLocals, rendererLocals>>

\* main(): the usage check
RenderMain ==
    /\ prog = "renderer" /\ pc = "main"
    /\ IF Len(argv) < 1
       THEN /\ error' = "usage" /\ Exit("sys.exit", 1, "no_file_argument")
       ELSE /\ pc' = "plot" /\ error' = "none" /\ Running
    /\ UNCHANGED <<inputs, fetcherLocals, rendererLocals>>

\* plot_era5_file(filepath): everything is inside one try block; loading can
\* raise before the metadata is read, plotting or saving after it
PlotFile ==
    /\ prog = "renderer" /\ pc = "plot"
    /\ LET filename == PathName(argv[1])
       IN  \/ /\ error' = "load"
              /\ UNCHANGED <<level, date_str>>
           \/ /\ error' \in {"none", "plot"}
              /\ level' = InferLevel(filename)
              /\ date_str' = InferDate(filename)
    /\ Exit("end", 0, "returned")
    /\ UNCHANGED <<inputs, fetcherLocals>>

----------------------------------------------------------------------------

Next ==
    \/ FetchImport
    \/ FetchMain
    \/ Start
    \/ Open
    \/ SelectDate
    \/ Variables
    \/ Levels
    \/ Latitude
    \/ Longitude
    \/ SaveVariable
    \/ Finish
    \/ RenderImport
    \/ RenderMain
    \/ PlotFile

Spec == Init /\ [][Next]_vars

----------------------------------------------------------------------------
(* Properties *)

\* the view right after step 3 ran without raising
AfterVariables == prog = "fetcher" /\ pc = "levels" /\ error = "none"

\* no requested name is a variable of the day's dataset
NoneRequestedExists ==
    /\ ~IsNone(cli.variables)
    /\ \A i \in 1..Len(Val(cli.variables)) :
          Val(cli.variables)[i] \notin VariablesOf(SelectDay(ds))

\* C1: when a variable list is supplied and none of its names is a variable
\* of the dataset, the view after the variable step holds exactly the first
\* three data variables of the dataset, in dataset order.
FallbackIsFirstThree ==
    (AfterVariables /\ NoneRequestedExists)
        => /\ Len(ds_day.data_vars) = 3
           /\ \A i \in 1..3 : ds_day.data_vars[i] = ds.data_vars[i]

FallbackTaken ==
    /\ AfterVariables /\ NoneRequestedExists
    /\ Len(ds.data_vars) > 3
    /\ ds_day.data_vars = SubSeq(ds.data_vars, 1, 3)

\* the view right after step 5 / step 6 went through its try block
AfterLatitude == prog = "fetcher" /\ pc = "longitude" /\ ~IsNone(lat_range)

AfterLongitude == prog = "fetcher" /\ pc = "save" /\ var_idx = 0 /\ ~IsNone(lon_range)

Reversed(range) == <<range[2], range[1]>>

\* C2: for each spatial axis, a range given as (a, b) with a > b leaves the
\* same view as the range (b, a) does.
ReversedRangeSelectsSame ==
    /\ (AfterLatitude /\ error = "none" /\ Val(lat_range)[1] > Val(lat_range)[2])
          => ds_day = SubsetLatitude([ds_day EXCEPT !.latitude = ds.latitude],
                                     Reversed(Val(lat_range)))
    /\ (AfterLongitude /\ error = "none" /\ Val(lon_range)[1] > Val(lon_range)[2])
          => ds_day = SubsetLongitude([ds_day EXCEPT !.longitude = ds.longitude],
                                      Reversed(Val(lon_range)))

ReversedRangeSelected ==
    /\ AfterLatitude /\ error = "none"
    /\ Val(lat_range)[1] > Val(lat_range)[2]
    /\ Len(ds_day.latitude) > 1

AxisMax(coords) == CHOOSE c \in Range(coords) : \A d \in Range(coords) : c >= d

AxisMin(coords) == CHOOSE c \in Range(coords) : \A d \in Range(coords) : c <= d

\* every bound of the range that lies outside the axis resolves to the
\* boundary coordinate on its side, and the slice holds that coordinate
ClampedTo(axis, range, slice) ==
    \A i \in 1..2 :
        /\ range[i] > AxisMax(axis)
              => Nearest(axis, range[i]) = AxisMax(axis) /\ AxisMax(axis) \in Range(slice)
        /\ range[i] < AxisMin(axis)
              => Nearest(axis, range[i]) = AxisMin(axis) /\ AxisMin(axis) \in Range(slice)

\* C3: a latitude or longitude bound outside the available coordinates
\* resolves to the nearest boundary coordinate, the step does not raise, and
\* the slice along that axis holds that boundary coordinate, also when both
\* bounds lie outside on the same side.
OutsideBoundsClampToBoundary ==
    /\ (AfterLatitude /\ "latitude" \in ds_day.dims)
          => /\ error = "none"
             /\ ClampedTo(ds.latitude, Val(lat_range), ds_day.latitude)
    /\ (AfterLongitude /\ "longitude" \in ds_day.dims)
          => /\ error = "none"
             /\ ClampedTo(ds.longitude, Val(lon_range), ds_day.longitude)

BothBoundsOutsideSameSide ==
    /\ AfterLatitude /\ "latitude" \in ds_day.dims
    /\ Val(lat_range)[1] < AxisMin(ds.latitude)
    /\ Val(lat_range)[2] < AxisMin(ds.latitude)
    /\ ds_day.latitude = <<AxisMin(ds.latitude)>>

IsIntLiteral(s) == IsDigit(s) \/ (Len(s) > 1 /\ s[1] = "-" /\ IsDigit(Tail(s)))

\* {var}_{int-level}_{8-digit date}_{14-digit timestamp}.nc
MatchesLeveledPattern(filename, var_name) ==
    LET prefix == Chars(var_name) \o <<"_">>
        rest   == SubSeq(filename, Len(prefix) + 1, Len(filename))
        parts  == Split(rest, "_")
    IN  /\ SubSeq(filename, 1, Len(prefix)) = prefix
        /\ Len(parts) = 3
        /\ IsIntLiteral(parts[1])
        /\ Len(parts[2]) = 8 /\ IsDigit(parts[2])
        /\ Len(parts[3]) = 17
        /\ IsDigit(SubSeq(parts[3], 1, 14))
        /\ SubSeq(parts[3], 15, 17) = <<".", "n", "c">>

\* C4: every file name written for a variable with a level dimension has the
\* form {var}_{int-level}_{8-digit date}_{14-digit timestamp}.nc, for every
\* year, month and day the command line accepts.
LeveledNamesMatchPattern ==
    \A i \in 1..Len(written) :
        IsMultilevel(written[i].var_name)
            => MatchesLeveledPattern(PathName(written[i].path), written[i].var_name)

GuardedSteps == {"variables", "levels", "latitude", "longitude"}

SelectionSteps ==
    {"date", "variables", "default_variables", "levels", "default_levels", "latitude",
     "longitude"}

\* the step that follows a selection step in download_era5_data
Following(step) ==
    CASE step = "variables" -> "levels"
      [] step = "levels"    -> "latitude"
      [] step = "latitude"  -> "longitude"
      [] step = "longitude" -> "save"

\* a run that bound the view and returned went through the whole save loop
ReturnedAfterSaving ==
    (prog = "fetcher" /\ pc = "exited" /\ ending = "returned" /\ ds_day # NoView)
        => var_idx = Len(ds_day.data_vars)

\* C5 (as amended): when variable filtering or level filtering with a
\* supplied list, latitude subsetting or longitude subsetting raises, the
\* exception is caught, the run goes on with the next step on the view as it
\* was before the failed step, and a run that goes on returns only after the
\* save loop.
CaughtStepContinues ==
    /\ [][(pc \in GuardedSteps /\ error' \in GuardedSteps)
            => /\ error' = pc
               /\ ds_day' = ds_day
               /\ pc' = Following(pc)
               /\ exit_code' = -1]_vars
    /\ []ReturnedAfterSaving

\* a guarded step raised on a view that an earlier step had reduced, and the
\* run went on to save that view
CaughtStepSeen ==
    /\ prog = "fetcher" /\ pc = "save" /\ error = "longitude"
    /\ ds_day.dims = {"level"}
    /\ ds_day.level = <<500>>

\* C5 (as claimed): whenever any selection step raises, the default branches
\* and date selection included, the run is not aborted and the view stays as
\* it was.
SelectionErrorsNeverAbort ==
    [][(error' \in SelectionSteps /\ pc \in {"date", "variables", "levels", "latitude",
                                             "longitude"})
          => /\ pc' # "exited"
             /\ ds_day' = ds_day]_vars

\* the positions of a variable's level loop whose file was written
PositionsWritten(var_name) ==
    {written[j].pos : j \in {x \in 1..Len(written) : written[x].var_name = var_name}}

FileCount(var_name) == IF IsMultilevel(var_name) THEN Len(ds_day.level) ELSE 1

\* C6 (as amended): a failed write is caught and ends the writing of its
\* variable only: the files of that variable written before the failure and
\* all files of every other variable are written, the levels after the failed
\* one are not, and the count equals the number of files written.
FailedWriteEndsItsVariable ==
    prog = "fetcher" =>
        /\ saved_count = Len(written)
        /\ disk = {written[j].path : j \in 1..Len(written)}
        /\ \A i \in 1..var_idx :
              LET v == ds_day.data_vars[i]
              IN  IF \E k \in 1..FileCount(v) : <<v, k>> \in save_errors
                  THEN \E k \in 1..FileCount(v) :
                          <<v, k>> \in save_errors /\ PositionsWritten(v) = 1..(k - 1)
                  ELSE PositionsWritten(v) = 1..FileCount(v)

\* the first of two levels failed, and a later variable was still written
FailedWriteSeen ==
    /\ prog = "fetcher" /\ pc = "exited" /\ ending = "returned"
    /\ \E i \in 1..Len(ds_day.data_vars) :
          /\ <<ds_day.data_vars[i], 1>> \in save_errors
          /\ FileCount(ds_day.data_vars[i]) = 2
          /\ i < Len(ds_day.data_vars)
    /\ saved_count > 0

\* C6 (as claimed): a failed write affects only its own file: every other
\* (variable, level) pair of the run is written, the later levels of the same
\* variable included, and the count equals the number of files written.
FailedWriteAffectsOnlyItsFile ==
    (prog = "fetcher" /\ pc = "exited" /\ ending = "returned")
        => /\ saved_count = Len(written)
           /\ \A i \in 1..Len(ds_day.data_vars) :
                 \A k \in 1..FileCount(ds_day.data_vars[i]) :
                     <<ds_day.data_vars[i], k>> \notin save_errors
                         => k \in PositionsWritten(ds_day.data_vars[i])

\* C7: every write of a run targets a path that no earlier write targeted.
NoPathWrittenTwice ==
    \A i, j \in 1..Len(written) : i # j => written[i].path # written[j].path

\* C8 (as amended): the exit status is 0 whenever the script runs to its
\* end, which includes the runs where opening the store, selecting the date,
\* loading, plotting or saving failed; it is 1 when a required package cannot
\* be imported, when the renderer is started without a file argument, and when
\* an exception escapes the fetcher; it is 2 when the fetcher's command line
\* is rejected.
ExitStatusByEnding ==
    pc = "exited" =>
        /\ ending \in {"returned", "import_error", "no_file_argument",
                       "uncaught_exception", "argparse_error"}
        /\ ending = "returned" => exit_code = 0
        /\ ending \in {"import_error", "no_file_argument", "uncaught_exception"}
              => exit_code = 1
        /\ ending = "argparse_error" => exit_code = 2
        /\ (error \in {"open", "date", "load", "plot"} \/ save_errors # {})
              => exit_code = 0 /\ ending = "returned"

UsageExitSeen ==
    /\ prog = "renderer" /\ pc = "exited"
    /\ ending = "no_file_argument" /\ exit_code = 1

\* C8 (as claimed): the exit status is 1 when a required package cannot be
\* imported and 0 on every other path.
ExitOneOnlyForMissingPackage ==
    pc = "exited" => exit_code = (IF ending = "import_error" THEN 1 ELSE 0)

\* the renderer read the metadata of a file of the fetcher
MetadataRead ==
    prog = "renderer" /\ pc = "exited" /\ ending = "returned" /\ error # "load"

\* C9: for a file of the fetcher, the renderer infers the date string
\* YYYY-MM-DD of the date the file was generated for.
RendererInfersFileDate ==
    MetadataRead
        => date_str = DateStr(Val(origin).year, Val(origin).month, Val(origin).day)

\* C10: for a file of the fetcher, the renderer infers "L hPa" for a file of
\* level L, whatever the variable name, and "surface" for a surface file.
RendererInfersFileLevel ==
    MetadataRead
        => level = (IF IsNone(Val(origin).level) THEN Surface
                    ELSE IntStr(Val(Val(origin).level)) \o <<" ", "h", "P", "a">>)

\* the requested levels as integers
RequestedLevels == {PyInt(Val(cli.levels)[i]) : i \in 1..Len(Val(cli.levels))}

\* C11: in the level step with a supplied level list, the levels kept are
\* exactly the requested integer levels that the view has; when it has none
\* of them the view keeps all its levels; when the view has no level
\* dimension the step leaves it unchanged.  Nothing but the levels changes.
LevelFilterKeepsRequestedAvailable ==
    [][(prog = "fetcher" /\ pc = "levels" /\ error' = "none" /\ ~IsNone(cli.levels))
          => /\ pc' = "latitude"
             /\ IF "level" \notin ds_day.dims
                THEN ds_day' = ds_day
                ELSE IF RequestedLevels \cap Range(ds_day.level) = {}
                THEN ds_day' = ds_day
                ELSE /\ Range(ds_day'.level) = RequestedLevels \cap Range(ds_day.level)
                     /\ ds_day' = [ds_day EXCEPT !.level = ds_day'.level]]_vars

\* the level step kept some of the requested levels and dropped a requested
\* level that the store lacks
LevelFilterTookPart ==
    /\ prog = "fetcher" /\ pc = "latitude" /\ error = "none" /\ ~IsNone(cli.levels)
    /\ "level" \in ds_day.dims
    /\ Range(ds_day.level) = RequestedLevels \cap Range(ds.level)
    /\ Range(ds_day.level) # Range(ds.level)
    /\ RequestedLevels \ Range(ds.level) # {}

====
